---- MODULE Spec2Model ----
(***************************************************************************)
(* A model of KSAN.py: the approach-corridor geometry and aircraft         *)
(* selection, the two time-bounded cache slots (sports, weather), and the  *)
(* main loop that arbitrates between flight, sports and weather payloads.  *)
(*                                                                         *)
(* Units.  Latitudes and longitudes are integers in steps of 0.005 degree  *)
(* (32.690 deg = 6538).  Local planar lengths are integers in units of     *)
(* 92.77 m, so that one latitude step is MLAT = 6 units (111320 m/deg) and *)
(* one longitude step at the corridor's mid latitude is MLON = 5 units     *)
(* (111320 * cos(32.7 deg) m/deg).  Times are whole seconds; inside the    *)
(* renderer they are milliseconds.  Widths and positions are pixels.       *)
(* An optional value (Python's None) is a sequence of length 0 or 1.       *)
(***************************************************************************)
EXTENDS Integers, Sequences, FiniteSets, TLC

VARIABLES
    geo,                  \* a geometry function's arguments and its result
    feedIn,               \* the scoreboard responses a sports fetch will receive
    slot,                 \* which cache slot the cache evaluation reads
    fcall,                \* a call of fetch_live_scrape or clamp_center_x and its result
    scroll,               \* render_cycle_with_margins' arguments, locals and position
    padres_cache,         \* _padres_cache, with age = now - ts
    weather_simple_cache, \* _weather_simple_cache, with age = now - ts
    sportsCall,           \* the tick's call of fetch_padres_score_lines, if any
    weatherCall,          \* the tick's call of fetch_weather_simple, if any
    pc,                   \* where main's loop stands
    ticks,                \* iterations of main's loop started so far
    ENRICH_CACHE,         \* main's ENRICH_CACHE: fid -> details
    items,                \* the tick's feed result
    best,                 \* the tick's pick_best result
    payload,              \* the lines handed to a renderer in this tick, if any
    tickLog,              \* what the tick did, in order
    display               \* the frame last swapped onto the matrix, if any

vars == << geo, feedIn, slot, fcall, scroll, padres_cache, weather_simple_cache,
          sportsCall, weatherCall, pc, ticks, ENRICH_CACHE, items, best,
          payload, tickLog, display >>
loopVars == << pc, ticks, ENRICH_CACHE, items, best, payload, tickLog, display >>
cacheVars == << padres_cache, weather_simple_cache, sportsCall, weatherCall >>
drawVars == << fcall, scroll >>

NoGeo == [op |-> "none", done |-> TRUE]
\* no call is evaluated and no render cycle is running
NoDraw == fcall = [op |-> "none", done |-> TRUE] /\ scroll = [pc |-> "idle", calls |-> 0]
None == << >>
Some(x) == << x >>

----------------------------------------------------------------------------
(* User geometry and filters *)

P1_LAT == 6538
P1_LON == -23402
P2_LAT == 6545
P2_LON == -23432
\* (CORRIDOR_HALF_MILES * 1609.344 m)^2 = (8.674 units)^2, rounded down
CORRIDOR_HALF_SQ == 75
ALT_FT_MIN == 200
ALT_FT_MAX == 4000
REQUIRE_ALT == TRUE

MLAT == 6
MLON == 5

----------------------------------------------------------------------------
(* Geo helpers *)

\* to_local_xy: (lon*mlon, lat*mlat); mlon is taken at the corridor's lat0.
to_local_xy(lat, lon) == [x |-> lon * MLON, y |-> lat * MLAT]

ClampInt(lo, hi, v) == IF v < lo THEN lo ELSE IF v > hi THEN hi ELSE v

\* The projection parameter before it is clamped, as the fraction num/den.
RawT(lat, lon, a_lat, a_lon, b_lat, b_lon) ==
    LET a == to_local_xy(a_lat, a_lon)
        b == to_local_xy(b_lat, b_lon)
        p == to_local_xy(lat, lon)
        vx == b.x - a.x
        vy == b.y - a.y
        wx == p.x - a.x
        wy == p.y - a.y
    IN  [num |-> wx * vx + wy * vy, den |-> vx * vx + vy * vy]

\* The clamp of line 141: t = max(0.0, min(1.0, raw)), as a numerator over v2.
ClampT(num, v2) == ClampInt(0, v2, num)

\* point_to_segment_dist_m returns (d, t).  Here d is given by its square
\* dnum/dden and t by tnum/tden: with t = tn/v2 and c = a + t*v,
\* |p - c|^2 = (v2*|w|^2 - 2*tn*(w.v) + tn^2) / v2.
point_to_segment_dist_m(lat, lon, a_lat, a_lon, b_lat, b_lon) ==
    LET a == to_local_xy(a_lat, a_lon)
        b == to_local_xy(b_lat, b_lon)
        p == to_local_xy(lat, lon)
        vx == b.x - a.x
        vy == b.y - a.y
        wx == p.x - a.x
        wy == p.y - a.y
        v2 == vx * vx + vy * vy
        w2 == wx * wx + wy * wy
        dot == wx * vx + wy * vy
        tn == ClampT(dot, v2)
    IN  IF v2 <= 0
        THEN [dnum |-> w2, dden |-> 1, tnum |-> 0, tden |-> 1]
        ELSE [dnum |-> (v2 * w2 - 2 * tn * dot) + tn * tn, dden |-> v2,
              tnum |-> tn, tden |-> v2]

altitude_ok(alt) ==
    IF alt # None THEN ALT_FT_MIN <= alt[1] /\ alt[1] <= ALT_FT_MAX
    ELSE ~REQUIRE_ALT

within_corridor(lat, lon) ==
    LET r == point_to_segment_dist_m(lat, lon, P1_LAT, P1_LON, P2_LAT, P2_LON)
    IN  /\ 0 <= r.tnum /\ r.tnum <= r.tden
        /\ r.dnum <= CORRIDOR_HALF_SQ * r.dden

----------------------------------------------------------------------------
(* Picking *)

\* d1 <= d2: what line 644 would test were its comparison not strict
DistLessOrEqual(r1, r2) ==
    IF r1.dden = r2.dden THEN r1.dnum <= r2.dnum
    ELSE r1.dnum * r2.dden <= r2.dnum * r1.dden

\* d1 < d2 for two distances given by their squares (line 644)
DistLess(r1, r2) ==
    IF r1.dden = r2.dden THEN r1.dnum < r2.dnum
    ELSE r1.dnum * r2.dden < r2.dnum * r1.dden

\* The loop of pick_best from item i on, with cur and cur_d for the loop's
\* best and best_d; cur_d = None stands for the
\* initial 1e12, which every distance that passed within_corridor is below.
RECURSIVE PickFrom(_, _, _, _)
PickFrom(its, i, cur, cur_d) ==
    IF i > Len(its) THEN cur
    ELSE LET it == its[i]
             d  == point_to_segment_dist_m(it.lat, it.lon,
                                           P1_LAT, P1_LON, P2_LAT, P2_LON)
         IN  IF ~altitude_ok(it.alt_ft) THEN PickFrom(its, i + 1, cur, cur_d)
             ELSE IF ~within_corridor(it.lat, it.lon)
                  THEN PickFrom(its, i + 1, cur, cur_d)
             ELSE IF cur_d = None \/ DistLess(d, cur_d[1])
                  THEN PickFrom(its, i + 1, Some(it), Some(d))
             ELSE PickFrom(its, i + 1, cur, cur_d)

pick_best(its) == PickFrom(its, 1, None, None)

----------------------------------------------------------------------------------------------------------------------------------------------
(* Time.  A slot's capture time ts is kept as the slot's age, now - ts, which *)
(* saturates one second past the slot's TTL: the code only tests             *)
(* now - ts < TTL.  Both slots start at ts = 0.0, long expired.              *)

WEATHER_CACHE_TTL == 900
PADRES_CACHE_TTL == 30
POLL_INTERVAL_SEC == 30
BACKOFF_SEC == 2

Older(age, dt, ttl) == IF age + dt > ttl + 1 THEN ttl + 1 ELSE age + dt

----------------------------------------------------------------------------
(* Weather simple *)

WHITE == "WHITE"
DASH == "--"

temp_to_color(t) ==
    IF t = None THEN WHITE
    ELSE IF t[1] <= 60 THEN "BLUE"
    ELSE IF 65 <= t[1] /\ t[1] <= 75 THEN "GREEN"
    ELSE IF t[1] <= 80 THEN "YELLOW"
    ELSE "RED"

\* f"{int(round(temp))}°F" and f"{int(round(wind))}mph ..." on the values the
\* weather responses below carry
TempText(temp) ==
    CASE temp = 58 -> "58F" [] temp = 72 -> "72F" [] temp = 90 -> "90F"
      [] OTHER -> "??F"
WindText(wind) == CASE wind = 5 -> "5mph" [] wind = 12 -> "12mph" [] OTHER -> "??mph"

\* Lines 316-317 returning what the slot holds instead of the placeholder.
WeatherPlaceholderStale ==
    [temp_text |-> weather_simple_cache.temp_text,
     temp_color |-> weather_simple_cache.temp_color,
     wind_text |-> weather_simple_cache.wind_text]

\* Lines 316-317: what a failed fetch returns.
WeatherPlaceholder == [temp_text |-> DASH, temp_color |-> WHITE, wind_text |-> ""]

\* Lines 307-313: the three values made from a parsed response.
WeatherValues(js) ==
    [temp_text  |-> IF js.temp_f # None THEN TempText(js.temp_f[1]) ELSE DASH,
     temp_color |-> IF js.temp_f # None THEN temp_to_color(js.temp_f) ELSE WHITE,
     wind_text  |-> IF js.wind_mph # None THEN WindText(js.wind_mph[1]) ELSE ""]

WeatherStored(c) ==
    [temp_text |-> c.temp_text, temp_color |-> c.temp_color, wind_text |-> c.wind_text]

\* Line 299 without the age test: whatever is stored is served.
WeatherFreshNoTTL(c) == c.temp_text # ""

\* Line 299: the cached value is served.
WeatherFresh(c) == c.age < WEATHER_CACHE_TTL /\ c.temp_text # ""

\* fetch_weather_simple, given the response the request would get: not ok
\* (transport or parse error), or the parsed current conditions.
fetch_weather_simple(resp) ==
    LET c == weather_simple_cache
        before == [age |-> c.age, stored |-> WeatherStored(c)]
    IN  IF WeatherFresh(c)
        THEN /\ weatherCall' = Some([fetched |-> FALSE, outcome |-> "hit",
                                     ret |-> WeatherStored(c), before |-> before])
             /\ UNCHANGED weather_simple_cache
        ELSE IF ~resp.ok
        THEN /\ weatherCall' = Some([fetched |-> TRUE, outcome |-> "error",
                                     ret |-> WeatherPlaceholder, before |-> before])
             /\ UNCHANGED weather_simple_cache
        ELSE /\ weatherCall' = Some([fetched |-> TRUE, outcome |-> "ok",
                                     ret |-> WeatherValues(resp), before |-> before])
             /\ weather_simple_cache' =
                    [age |-> 0] @@ WeatherValues(resp)

WeatherResponses ==
    { [ok |-> FALSE],
      [ok |-> TRUE, temp_f |-> None, wind_mph |-> None],
      [ok |-> TRUE, temp_f |-> Some(58), wind_mph |-> None],
      [ok |-> TRUE, temp_f |-> Some(72), wind_mph |-> Some(5)] }

----------------------------------------------------------------------------
(* Padres live only when tied or winning *)

\* str(...).lower() on the status states the events below carry
Lower(st) ==
    CASE st = "IN" -> "in" [] st = "InProgress" -> "inprogress"
      [] st = "LIVE" -> "live" [] OTHER -> st

is_live(status_block) ==
    IF status_block = None THEN FALSE
    ELSE Lower(status_block[1]) \in {"in", "inprogress", "live"}

NoGame == [have |-> FALSE, top |-> None, bottom |-> None]

\* Line 403 with the comparison turned around: a tie is skipped too.
SkipUnlessAhead(padres_score, opp_score) == padres_score <= opp_score

\* Line 403: the game is skipped when the tracked team trails.
SkipLosing(padres_score, opp_score) == padres_score < opp_score

\* Lines 367-420: the scan of one date's events from event i on; the lines of
\* the first eligible game, or None.  An event is
\*   [ev, comp: optional status state, n: number of competitors,
\*    padres: "A", "B" or "none", sA, sB: the two scores].
RECURSIVE ScanEvents(_, _)
ScanEvents(events, i) ==
    IF i > Len(events) THEN None
    ELSE LET e == events[i]
             padres_is_A == e.padres = "A"
             padres_score == IF padres_is_A THEN e.sA ELSE e.sB
             opp_score == IF padres_is_A THEN e.sB ELSE e.sA
         IN  IF ~(is_live(e.ev) \/ is_live(e.comp)) THEN ScanEvents(events, i + 1)
             ELSE IF e.n # 2 THEN ScanEvents(events, i + 1)
             ELSE IF e.padres = "none" THEN ScanEvents(events, i + 1)
             ELSE IF SkipLosing(padres_score, opp_score)
                  THEN ScanEvents(events, i + 1)
             ELSE Some([have |-> TRUE,
                        top |-> Some(<<"SD", padres_score>>),
                        bottom |-> Some(<<"OPP", opp_score>>)])

\* Lines 357-424: the dates are requested in order; resps[k] is the response
\* to the request for date k: not ok, or the events of that date.  The result is the lines found, and how the fetch ended.
RECURSIVE ScanDates(_, _)
ScanDates(resps, k) ==
    IF k > Len(resps) THEN [outcome |-> "nogame", ret |-> NoGame, asked |-> k - 1]
    ELSE IF ~resps[k].ok THEN [outcome |-> "error", ret |-> NoGame, asked |-> k]
    ELSE LET found == ScanEvents(resps[k].events, 1)
         IN  IF found # None
             THEN [outcome |-> "game", ret |-> found[1], asked |-> k]
             ELSE ScanDates(resps, k + 1)

PadresStored(c) == [have |-> c.have, top |-> c.top, bottom |-> c.bottom]

\* Line 327 with <= for <.
PadresFreshInclusive(c) == c.age <= PADRES_CACHE_TTL

\* Line 327: the cached value is served.
PadresFresh(c) == c.age < PADRES_CACHE_TTL

\* fetch_padres_score_lines with lines 422-430 leaving the slot as it is when
\* the fetch fails or finds no game.
fetch_padres_keeping_slot(resps) ==
    LET c == padres_cache
        before == [age |-> c.age, stored |-> PadresStored(c)]
    IN  IF PadresFresh(c)
        THEN /\ sportsCall' = Some([fetched |-> FALSE, outcome |-> "hit", asked |-> 0,
                                    ret |-> PadresStored(c), before |-> before])
             /\ UNCHANGED padres_cache
        ELSE LET r == ScanDates(resps, 1)
             IN  /\ sportsCall' = Some([fetched |-> TRUE, outcome |-> r.outcome,
                                        asked |-> r.asked, ret |-> r.ret,
                                        before |-> before])
                 /\ padres_cache' = IF r.outcome = "game" THEN [age |-> 0] @@ r.ret
                                    ELSE padres_cache

\* fetch_padres_score_lines, given the responses the two dated requests
\* would get.
fetch_padres_score_lines(resps) ==
    LET c == padres_cache
        before == [age |-> c.age, stored |-> PadresStored(c)]
    IN  IF PadresFresh(c)
        THEN /\ sportsCall' = Some([fetched |-> FALSE, outcome |-> "hit", asked |-> 0,
                                    ret |-> PadresStored(c), before |-> before])
             /\ UNCHANGED padres_cache
        ELSE LET r == ScanDates(resps, 1)
             IN  /\ sportsCall' = Some([fetched |-> TRUE, outcome |-> r.outcome,
                                        asked |-> r.asked, ret |-> r.ret,
                                        before |-> before])
                 /\ padres_cache' = [age |-> 0] @@ r.ret

Event(ev, comp, n, padres, sA, sB) ==
    [ev |-> ev, comp |-> comp, n |-> n, padres |-> padres, sA |-> sA, sB |-> sB]

CacheInit ==
    /\ padres_cache = [age |-> PADRES_CACHE_TTL + 1] @@ NoGame
    /\ weather_simple_cache =
           [age |-> WEATHER_CACHE_TTL + 1, temp_text |-> "", temp_color |-> "NONE",
            wind_text |-> ""]
    /\ sportsCall = None
    /\ weatherCall = None

----------
(* Evaluation of the sports fetch and of the cache slots on bounded inputs *)

\* the longest event list of a scoreboard response
MaxEvents == 2

Failed == [ok |-> FALSE]
Events(evs) == [ok |-> TRUE, events |-> evs]

\* live and not live status blocks, the tracked team as either competitor or
\* absent, and the tracked team trailing, leading and tied
StatusPairs ==
    { <<Some("pre"), None>>, <<Some("IN"), None>>, <<None, Some("live")>>,
      <<Some("post"), Some("InProgress")>> }
ScorePairs == { <<3, 4>>, <<4, 3>>, <<3, 3>> }
GameSet ==
    { Event(st[1], st[2], 2, pd, sc[1], sc[2]) :
        st \in StatusPairs, pd \in {"A", "B"}, sc \in ScorePairs }
    \cup { Event(Some("in"), Some("in"), 2, "none", 4, 3),
           Event(Some("in"), Some("in"), 1, "A", 4, 3) }

EventLists == UNION { [1..n -> GameSet] : n \in 0..MaxEvents }

Win == Event(Some("in"), Some("in"), 2, "A", 4, 3)
Tie == Event(Some("in"), Some("in"), 2, "B", 3, 3)
Lose == Event(Some("in"), Some("in"), 2, "A", 3, 4)

\* what the request for the second date (yesterday) may get
SecondResponses == { Failed, Events(<< >>), Events(<<Tie>>), Events(<<Lose>>) }

\* the responses a sports fetch gets in the main loop and in the cache runs
SportsResponses ==
    { <<Failed, Failed>>, <<Events(<< >>), Failed>>, <<Events(<< >>), Events(<< >>)>>,
      <<Events(<<Lose>>), Events(<< >>)>>, <<Events(<<Win>>), Events(<< >>)>>,
      <<Events(<<Lose>>), Events(<<Tie>>)>> }

SportsInputs ==
    \E r1 \in {Failed} \cup { Events(evs) : evs \in EventLists },
       r2 \in SecondResponses :
        feedIn = Some(<<r1, r2>>)

SportsApply ==
    /\ feedIn # None
    /\ sportsCall = None
    /\ fetch_padres_score_lines(feedIn[1])
    /\ UNCHANGED << geo, feedIn, slot, drawVars, weather_simple_cache, weatherCall, loopVars >>

\* the seconds that may pass between two reads of a slot
CacheSteps == { 0, 1, PADRES_CACHE_TTL - 1, WEATHER_CACHE_TTL - 1 }

CacheAdvance ==
    /\ slot # "none"
    /\ \E dt \in CacheSteps :
         /\ padres_cache' =
               [padres_cache EXCEPT !.age = Older(@, dt, PADRES_CACHE_TTL)]
         /\ weather_simple_cache' =
               [weather_simple_cache EXCEPT !.age = Older(@, dt, WEATHER_CACHE_TTL)]
    /\ sportsCall' = None
    /\ weatherCall' = None
    /\ UNCHANGED << geo, feedIn, slot, drawVars, loopVars >>

CacheReadSports ==
    /\ slot = "sports"
    /\ sportsCall = None
    /\ \E resps \in SportsResponses : fetch_padres_score_lines(resps)
    /\ UNCHANGED << geo, feedIn, slot, drawVars, weather_simple_cache, weatherCall, loopVars >>

CacheReadWeather ==
    /\ slot = "weather"
    /\ weatherCall = None
    /\ \E resp \in WeatherResponses : fetch_weather_simple(resp)
    /\ UNCHANGED << geo, feedIn, slot, drawVars, padres_cache, sportsCall, loopVars >>

CacheNext == CacheAdvance \/ CacheReadSports \/ CacheReadWeather

----------------------------------------------------------------------------
(* Evaluation of the geometry functions on bounded inputs *)

\* how far around the corridor's bounding rectangle the probed points lie
ProbePad == 3
\* the longest observation list given to pick_best
MaxItems == 3

ProbeLats == (P1_LAT - ProbePad) .. (P2_LAT + ProbePad)
ProbeLons == (P2_LON - ProbePad) .. (P1_LON + ProbePad)

\* Positions of the observations given to pick_best: two at the same
\* distance on either side of the centerline, one farther inside, one outside.
PickPoints ==
    { <<P1_LAT + 3, P1_LON - 13>>, <<P1_LAT + 4, P1_LON - 17>>,
      <<P1_LAT + 4, P1_LON - 15>>, <<P1_LAT - 3, P1_LON - 15>> }
PickAlts == { Some(200), Some(4001) }
\* a position and an altitude: every position inside and outside the altitude
\* band, and the band's edges and a missing altitude on the two nearest ones
PickCases ==
    { << p, a >> : p \in PickPoints, a \in PickAlts }
    \cup { << << P1_LAT + 3, P1_LON - 13 >>, None >>,
           << << P1_LAT + 3, P1_LON - 13 >>, Some(199) >>,
           << << P1_LAT + 4, P1_LON - 17 >>, Some(4000) >> }
FidOf(i) == CASE i = 1 -> "f1" [] i = 2 -> "f2" [] i = 3 -> "f3" [] OTHER -> "f4"

GeoLists ==
    UNION { { [i \in 1..n |-> [lat |-> cs[i][1][1], lon |-> cs[i][1][2],
                               alt_ft |-> cs[i][2], fn |-> "", fid |-> FidOf(i)]]
              : cs \in [1..n -> PickCases] }
            : n \in 0..MaxItems }

\* The inputs are drawn in the initial state; each action applies one function.
GeoInputs ==
    \/ \E lat \in ProbeLats, lon \in ProbeLons :
           geo = [op |-> "within_corridor", done |-> FALSE, lat |-> lat, lon |-> lon]
    \/ \E its \in GeoLists :
           geo = [op |-> "pick_best", done |-> FALSE, items |-> its]

GeoProbe ==
    /\ geo.op = "within_corridor" /\ ~geo.done
    /\ geo' = [op |-> "within_corridor", done |-> TRUE, lat |-> geo.lat,
               lon |-> geo.lon, ret |-> within_corridor(geo.lat, geo.lon)]
    /\ UNCHANGED << feedIn, slot, drawVars, cacheVars, loopVars >>

GeoPick ==
    /\ geo.op = "pick_best" /\ ~geo.done
    /\ geo' = [op |-> "pick_best", done |-> TRUE, items |-> geo.items,
               ret |-> pick_best(geo.items)]
    /\ UNCHANGED << feedIn, slot, drawVars, cacheVars, loopVars >>

GeoNext == GeoProbe \/ GeoPick




----------------------------------------------------------------------------
(* FR24 fetchers *)

FEED_HOSTS ==
    << "https://data-cloud.flightradar24.com", "https://data-live.flightradar24.com" >>

\* fetch_live_scrape giving up at the first host that fails instead of going
\* on to the next one.
FeedFromFirstOnly(resps, h) ==
    IF resps[h].status # "ok"
    THEN [out |-> << >>, asked |-> h, answered |-> 0, contacted |-> << FEED_HOSTS[h] >>]
    ELSE [out |-> resps[h].out, asked |-> h, answered |-> h,
          contacted |-> << FEED_HOSTS[h] >>]

\* fetch_live_scrape from host h on; resps[h] is what host h would answer:
\* status "403", a failure ("error", or by its kind "transport", "http",
\* "parse") or "ok" with the observations parsed from it.  The result is the
\* list returned, the hosts contacted in order, and the host that answered.
RECURSIVE FeedFrom(_, _)
FeedFrom(resps, h) ==
    IF h > Len(FEED_HOSTS)
    THEN [out |-> << >>, asked |-> h - 1, answered |-> 0, contacted |-> << >>]
    ELSE LET rest == FeedFrom(resps, h + 1)
             next == [rest EXCEPT !.contacted = << FEED_HOSTS[h] >> \o @]
         IN  IF resps[h].status = "403" THEN next
             ELSE IF resps[h].status # "ok" THEN next
             ELSE [out |-> resps[h].out, asked |-> h, answered |-> h,
                   contacted |-> << FEED_HOSTS[h] >>]

fetch_live_scrape(resps) == FeedFrom(resps, 1)

\* fetch_details_scrape returns {} on any error and otherwise a dict that has
\* all its keys, whatever their values.
EmptyDict == [full |-> FALSE]
Details(callsign, registration, type, type_text, dep_code, dep_name) ==
    [full |-> TRUE, callsign |-> callsign, registration |-> registration,
     type |-> type, type_text |-> type_text, dep_code |-> dep_code,
     dep_name |-> dep_name]

Get(extra, key) ==
    IF ~extra.full THEN None
    ELSE CASE key = "callsign" -> extra.callsign
           [] key = "registration" -> extra.registration
           [] key = "type" -> extra.type
           [] key = "type_text" -> extra.type_text
           [] key = "dep_code" -> extra.dep_code
           [] key = "dep_name" -> extra.dep_name

\* A text value is [str |-> TRUE, s |-> ...]; a value of another JSON type
\* is [str |-> FALSE].
Str(x) == [str |-> TRUE, s |-> x]
NotAString == [str |-> FALSE]

\* airports_db.AIRPORTS_IATA, on the one code the details below carry
AirportInTable(code) == code = "LAX"
AirportTableName(code) == "Los Angeles Intl"

\* airport_name_only: the name, or "raise" where dep_name.split fails.
airport_name_only(dep_code, dep_name) ==
    LET code == IF dep_code # None THEN dep_code[1] ELSE ""
    IN  IF code # "" /\ AirportInTable(code) THEN AirportTableName(code)
        ELSE IF dep_name # None
             THEN IF dep_name[1].str THEN dep_name[1].s ELSE "raise"
        ELSE code

\* AC_FULLNAME_MAP, on the one type code the details below carry
InFullNameMap(ac_code) == ac_code = "B738"
FullName(ac_code) == "Boeing 737-800"

GREEN == "GREEN"
map_delay_to_color(d) ==
    IF d = None THEN GREEN
    ELSE IF d[1] <= -5 THEN "CYAN"
    ELSE IF -4 <= d[1] /\ d[1] <= 5 THEN GREEN
    ELSE IF d[1] <= 20 THEN "YELLOW"
    ELSE "RED"

----------------------------------------------------------------------------
(* Main *)

\* iterations of the loop that a run follows
MaxTicks == 3

LogAll(evs) == tickLog' = tickLog \o evs
Logged(ev) == \E i \in 1..Len(tickLog) : tickLog[i] = ev

Elapse(dt) ==
    /\ padres_cache' = [padres_cache EXCEPT !.age = Older(@, dt, PADRES_CACHE_TTL)]
    /\ weather_simple_cache' =
          [weather_simple_cache EXCEPT !.age = Older(@, dt, WEATHER_CACHE_TTL)]

\* the observations the feed hands to the loop: one aircraft in the corridor,
\* with and without a callsign, and one outside it
InCorridor == [lat |-> P1_LAT + 3, lon |-> P1_LON - 13, alt_ft |-> Some(2000),
               fn |-> "UAL123", fid |-> "f1"]
NoCallsign == [InCorridor EXCEPT !.fn = ""]
Outside == [lat |-> P1_LAT - 3, lon |-> P1_LON - 15, alt_ft |-> Some(2000),
            fn |-> "SWA9", fid |-> "f2"]
FeedLists == { << >>, <<InCorridor>>, <<NoCallsign>>, <<Outside>>,
               <<Outside, InCorridor>> }
HostResponses ==
    { [status |-> "403"], [status |-> "error"] }
    \cup { [status |-> "ok", out |-> l] : l \in FeedLists }

DetailResponses ==
    { EmptyDict,
      Details(Some("UAL123"), Some("N12345"), Some("B738"), Some("Boeing 737-8"),
              Some("LAX"), Some(Str("Los Angeles International Airport"))),
      Details(None, None, Some("B738"), None, None, None),
      Details(None, Some("N12345"), None, None, None, Some(NotAString)) }
\* fetch_delay_minutes: None on any error, else the minutes (or None)
DelayResponses == { [ok |-> FALSE], [ok |-> TRUE, min |-> Some(12)] }
fetch_delay_minutes(resp) == IF resp.ok THEN resp.min ELSE None

\* Lines 660-661 and the test of line 663.
Poll(hosts) ==
    LET fed == fetch_live_scrape(hosts)
        picked == pick_best(fed.out)
    IN  /\ pc = "poll"
        /\ ticks < MaxTicks
        /\ ticks' = ticks + 1
        /\ items' = fed.out
        /\ best' = picked
        /\ tickLog' = [h \in 1..fed.asked |-> "feed"]
                       \o (IF fed.answered = 0 THEN << "feed_error" >> ELSE << >>)
                       \o << "pick" >>
        /\ payload' = None
        /\ sportsCall' = None
        /\ weatherCall' = None
        /\ pc' = IF picked # None THEN "flight" ELSE "sports"
        /\ UNCHANGED << geo, feedIn, slot, drawVars, padres_cache, weather_simple_cache,
                        ENRICH_CACHE, display >>

\* Line 665 with the test left out: the details are fetched in every tick.
NeedsDetailsAlways(cached, fn) == TRUE

\* Line 665: the details are fetched when nothing (or an empty dict) is
\* stored for the aircraft, and also when the feed gave it no callsign.
NeedsDetails(cached, fn) == (~cached.full) \/ fn = ""

\* Lines 664-679: enrichment, delay lookup and the three lines of the
\* Flight payload; det and delay are what the two lookups would return.
FlightStep(det, delay) ==
    LET b == best[1]
        cached == IF b.fid \in DOMAIN ENRICH_CACHE THEN ENRICH_CACHE[b.fid]
                  ELSE EmptyDict
        refetch == NeedsDetails(cached, b.fn)
        extra == IF refetch THEN det ELSE cached
        callsign == Get(extra, "callsign")
        reg == Get(extra, "registration")
        ident == IF callsign # None THEN callsign[1]
                 ELSE IF b.fn # "" THEN b.fn
                 ELSE IF reg # None THEN reg[1]
                 ELSE "UNKNOWN"
        type_text == Get(extra, "type_text")
        type == Get(extra, "type")
        ac_code == IF type # None THEN type[1] ELSE ""
        line2 == IF type_text # None THEN type_text[1]
                 ELSE IF InFullNameMap(ac_code) THEN FullName(ac_code)
                 ELSE ""
        line3 == airport_name_only(Get(extra, "dep_code"), Get(extra, "dep_name"))
        delay_min == fetch_delay_minutes(delay)
        did == (IF refetch THEN << "details" >> ELSE << >>)
               \o (IF refetch /\ ~det.full THEN << "details_error" >> ELSE << >>)
               \o << "delay" >>
               \o (IF ~delay.ok THEN << "delay_error" >> ELSE << >>)
    IN  /\ pc = "flight"
        /\ ENRICH_CACHE' = IF refetch THEN (b.fid :> extra) @@ ENRICH_CACHE
                           ELSE ENRICH_CACHE
        /\ IF line3 = "raise"
           THEN /\ LogAll(did \o << "raise" >>)
                /\ pc' = "backoff"
                /\ UNCHANGED payload
           ELSE /\ LogAll(did)
                /\ payload' = Some([kind |-> "Flight", fid |-> b.fid, l1 |-> ident,
                                    l2 |-> line2, l3 |-> line3,
                                    dot |-> map_delay_to_color(delay_min)])
                /\ pc' = "render"
        /\ UNCHANGED << geo, feedIn, slot, drawVars, cacheVars, ticks, items, best, display >>

\* Lines 687 and 693, with the call's failure escaping to main's handler
\* instead of being caught at line 426.
SportsRouteUncaught(call) ==
    IF call.outcome = "error" THEN "backoff"
    ELSE IF call.ret.have THEN "render" ELSE "weather"

\* Lines 687 and 693 without the else: the weather is read in any case.
SportsRouteNoElse(call) == "weather"

\* Lines 687 and 693: where the loop goes with the sports result.
SportsRoute(call) == IF call.ret.have THEN "render" ELSE "weather"

\* Line 684 left out: after the Flight render the loop body goes on.
AfterRenderNoContinue(kind) == IF kind = "Flight" THEN "sports" ELSE "poll"

\* Line 684 (continue) and the end of the loop body: the next iteration.
AfterRender(kind) == "poll"

\* Lines 686-692: the sports slot is read; a game goes to render_mlb_view.
SportsStep(resps) ==
    /\ pc = "sports"
    /\ fetch_padres_score_lines(resps)
    /\ LET call == sportsCall'[1]
           did == << "sports" >> \o (IF call.fetched THEN << "sports_fetch" >> ELSE << >>)
       IN  /\ LogAll(did)
           /\ payload' = IF call.ret.have
                         THEN Some([kind |-> "Sport", l1 |-> call.ret.top[1],
                                    l2 |-> call.ret.bottom[1], l3 |-> "",
                                    dot |-> "NONE"])
                         ELSE payload
           /\ pc' = SportsRoute(call)
    /\ UNCHANGED << geo, feedIn, slot, drawVars, weather_simple_cache, weatherCall, ticks,
                    ENRICH_CACHE, items, best, display >>

\* Lines 694-695 with the fetch's failure escaping to main's handler instead
\* of being caught at line 316.
WeatherRouteUncaught(call) == IF call.outcome = "error" THEN "backoff" ELSE "render"

\* Lines 694-695: whatever the weather call returns goes to the renderer.
WeatherRoute(call) == "render"

\* Lines 694-697: the weather slot is read and its three values become the
\* lines under "NO TRAFFIC".
WeatherStep(resp) ==
    /\ pc = "weather"
    /\ fetch_weather_simple(resp)
    /\ LET call == weatherCall'[1]
           did == << "weather" >> \o (IF call.fetched THEN << "weather_fetch" >> ELSE << >>)
       IN  /\ LogAll(did)
           /\ payload' = Some([kind |-> "Weather", l1 |-> "NO TRAFFIC",
                               l2 |-> call.ret.temp_text, l3 |-> call.ret.wind_text,
                               dot |-> call.ret.temp_color])
           /\ pc' = WeatherRoute(call)
    /\ UNCHANGED << geo, feedIn, slot, drawVars, padres_cache, sportsCall, ticks,
                    ENRICH_CACHE, items, best, display >>

\* The renderer drawing over the canvas of the frame before without clearing
\* it: the third line of the earlier frame stays.
RenderKeepsCanvas(outcome) ==
    /\ pc = "render"
    /\ display' = IF outcome = "raise_before" THEN display
                  ELSE IF display = None THEN Some([tick |-> ticks, shown |-> payload[1]])
                  ELSE Some([tick |-> ticks,
                             shown |-> [payload[1] EXCEPT !.l3 = display[1].shown.l3]])
    /\ IF outcome = "ok"
       THEN /\ LogAll(<< "frame" >>)
            /\ Elapse(POLL_INTERVAL_SEC)
            /\ pc' = "poll"
       ELSE /\ LogAll((IF outcome = "raise_after" THEN << "frame" >> ELSE << >>)
                      \o << "raise" >>)
            /\ UNCHANGED << padres_cache, weather_simple_cache >>
            /\ pc' = "backoff"
    /\ UNCHANGED << geo, feedIn, slot, drawVars, sportsCall, weatherCall, ticks,
                    ENRICH_CACHE, items, best, payload >>

\* Lines 681-683, 688-692, 695-697: the renderer runs for POLL_INTERVAL_SEC
\* and swaps the payload's frames onto the matrix; a drawing call may raise,
\* before the first frame or after it.
Render(outcome) ==
    /\ pc = "render"
    /\ display' = IF outcome = "raise_before" THEN display
                  ELSE Some([tick |-> ticks, shown |-> payload[1]])
    /\ IF outcome = "ok"
       THEN /\ LogAll(<< "frame" >>)
            /\ Elapse(POLL_INTERVAL_SEC)
            /\ pc' = AfterRender(payload[1].kind)
       ELSE /\ LogAll((IF outcome = "raise_after" THEN << "frame" >> ELSE << >>)
                      \o << "raise" >>)
            /\ UNCHANGED << padres_cache, weather_simple_cache >>
            /\ pc' = "backoff"
    /\ UNCHANGED << geo, feedIn, slot, drawVars, sportsCall, weatherCall, ticks, ENRICH_CACHE,
                    items, best, payload >>

\* Lines 701-703 with the handler leaving the loop after the warning.
BackoffBreaks ==
    /\ pc = "backoff"
    /\ LogAll(<< "warning" >>)
    /\ pc' = "done"
    /\ UNCHANGED << geo, feedIn, slot, drawVars, cacheVars, ticks, ENRICH_CACHE, items, best,
                    payload, display >>

\* Lines 701-703: the failure is logged and the loop sleeps 2 s.
Backoff ==
    /\ pc = "backoff"
    /\ LogAll(<< "warning" >>)
    /\ Elapse(BACKOFF_SEC)
    /\ pc' = "poll"
    /\ UNCHANGED << geo, feedIn, slot, drawVars, sportsCall, weatherCall, ticks, ENRICH_CACHE,
                    items, best, payload, display >>

\* Lines 699-700: KeyboardInterrupt, raised wherever the loop stands.
Interrupt ==
    /\ pc # "done"
    /\ pc' = "done"
    /\ LogAll(<< "KeyboardInterrupt" >>)
    /\ UNCHANGED << geo, feedIn, slot, drawVars, cacheVars, ticks, ENRICH_CACHE, items, best,
                    payload, display >>

LoopInit ==
    /\ pc = "poll"
    /\ ticks = 0
    /\ ENRICH_CACHE = << >>
    /\ items = << >>
    /\ best = None
    /\ payload = None
    /\ tickLog = << >>
    /\ display = None

Init == geo = NoGeo /\ feedIn = None /\ slot = "none" /\ CacheInit /\ LoopInit /\ NoDraw

Next ==
    \/ \E h1 \in HostResponses, h2 \in HostResponses : Poll(<< h1, h2 >>)
    \/ \E det \in DetailResponses, delay \in DelayResponses : FlightStep(det, delay)
    \/ \E resps \in SportsResponses : SportsStep(resps)
    \/ \E resp \in WeatherResponses : WeatherStep(resp)
    \/ \E outcome \in {"ok", "raise_before", "raise_after"} : Render(outcome)
    \/ Backoff
    \/ Interrupt

Spec == Init /\ [][Next]_vars

GeoInit == GeoInputs /\ feedIn = None /\ slot = "none" /\ CacheInit /\ LoopInit /\ NoDraw
SpecGeo == GeoInit /\ [][GeoNext]_vars

SportsInit ==
    geo = NoGeo /\ SportsInputs /\ slot = "none" /\ CacheInit /\ LoopInit /\ NoDraw
SportsNext == SportsApply
SpecSports == SportsInit /\ [][SportsNext]_vars

CacheRunInit ==
    /\ geo = NoGeo /\ feedIn = None /\ slot \in {"sports", "weather"}
    /\ CacheInit /\ LoopInit /\ NoDraw
SpecCache == CacheRunInit /\ [][CacheNext]_vars

\* what a feed host may answer to fetch_live_scrape: 403, a transport, HTTP
\* or parse error, or a feed
FeedCallResponses ==
    { [status |-> st] : st \in {"403", "transport", "http", "parse"} }
    \cup { [status |-> "ok", out |-> l] : l \in FeedLists }

FeedInputs ==
    \E h1 \in FeedCallResponses, h2 \in FeedCallResponses :
        fcall = [op |-> "fetch_live_scrape", done |-> FALSE, resps |-> << h1, h2 >>]

FeedCall ==
    /\ fcall.op = "fetch_live_scrape" /\ ~fcall.done
    /\ fcall' = [op |-> "fetch_live_scrape", done |-> TRUE, resps |-> fcall.resps,
                 ret |-> fetch_live_scrape(fcall.resps)]
    /\ UNCHANGED << geo, feedIn, slot, scroll, cacheVars, loopVars >>

FeedInit ==
    /\ geo = NoGeo /\ feedIn = None /\ slot = "none" /\ CacheInit /\ LoopInit
    /\ FeedInputs /\ scroll = [pc |-> "idle", calls |-> 0]
FeedNext == FeedCall
SpecFeed == FeedInit /\ [][FeedNext]_vars

----------------------------------------------------------------------------
(* Scrolling renderer with true margins *)

MATRIX_COLS == 64
SIDE_MARGIN_PX == 2
hold_ms == 1600
step_ms == 80
step_px == 1
PAUSE_MS == 200

Min(a, b) == IF a <= b THEN a ELSE b
Max(a, b) == IF a >= b THEN a ELSE b

clamp_center_x(width_px, text_w, margin) ==
    LET centered == (width_px - text_w) \div 2
    IN  Max(margin, Min(centered, width_px - margin - text_w))

\* width(t): what graphics.DrawText measures for the texts the calls below
\* pass; a text is named by its width in the font in use.
width(t) ==
    CASE t = "" -> 0
      [] t = "UAL123" -> 36
      [] t = "NO TRAFFIC" -> 60
      [] t = "px60" -> 60
      [] t = "px61" -> 61
      [] t = "px62" -> 62
      [] t = "px63" -> 63
      [] t = "SD" -> 16
      [] t = "LAD" -> 24

\* Lines 456-457 with < for <=.
FitsStrictly(w, viewport_w) == w < viewport_w

\* Lines 456-457: a line fits when it is no wider than the viewport.
Fits(w, viewport_w) == w <= viewport_w

\* Lines 458-459 taking the whole text width as the distance to scroll.
SpanWholeText(fits, w, viewport_w) == IF fits THEN 0 ELSE w

\* Lines 458-459: the distance a line that does not fit is scrolled.
Span(fits, w, viewport_w) == IF fits THEN 0 ELSE w - viewport_w

\* Line 498 never taking the static path.
AllFitNever(l2_fits, l3_fits) == FALSE

\* Line 498: the static path is taken when lines 2 and 3 fit.
AllFit(l2_fits, l3_fits) == l2_fits /\ l3_fits

NotDrawn == [drawn |-> FALSE, text |-> "", w |-> 0, x |-> 0, centered |-> FALSE]
Drawn(text, w, x, centered) ==
    [drawn |-> TRUE, text |-> text, w |-> w, x |-> x, centered |-> centered]

\* Lines 477-494: line 2 or 3 on the canvas.
DrawLine(l, w, fits, off, margin, left_align) ==
    IF l = "" THEN NotDrawn
    ELSE IF fits
    THEN Drawn(l, w, IF left_align THEN margin
                     ELSE clamp_center_x(MATRIX_COLS, w, margin), ~left_align)
    ELSE Drawn(l, w, margin - off, FALSE)

\* draw() starting from the offsets of the frame on the matrix instead of the
\* offsets it is given, in the first frame of a call.
drawCarried(at, off2, off3) ==
    LET sc == scroll
        text1 == IF sc.l1 # "" THEN sc.l1 ELSE "NO TRAFFIC"
        w1_ == width(text1)
        x1 == IF sc.left_align THEN sc.margin
              ELSE clamp_center_x(MATRIX_COLS, w1_, sc.margin)
        o2 == IF sc.n = 0 /\ display # None THEN display[1].off2 ELSE off2
        o3 == IF sc.n = 0 /\ display # None THEN display[1].off3 ELSE off3
    IN  [call |-> sc.calls, at |-> at, off2 |-> o2, off3 |-> o3,
         t1 |-> Drawn(text1, w1_, x1, ~sc.left_align),
         t2 |-> DrawLine(sc.l2, sc.w2, sc.l2_fits, o2, sc.margin, sc.left_align),
         t3 |-> DrawLine(sc.l3, sc.w3, sc.l3_fits, o3, sc.margin, sc.left_align)]

\* Lines 461-496: draw(off2, off3), called from line `at`: the canvas is
\* cleared, the three lines are drawn and the canvas is swapped in.
draw(at, off2, off3) ==
    LET sc == scroll
        text1 == IF sc.l1 # "" THEN sc.l1 ELSE "NO TRAFFIC"
        w1_ == width(text1)
        x1 == IF sc.left_align THEN sc.margin
              ELSE clamp_center_x(MATRIX_COLS, w1_, sc.margin)
    IN  [call |-> sc.calls, at |-> at, off2 |-> off2, off3 |-> off3,
         t1 |-> Drawn(text1, w1_, x1, ~sc.left_align),
         t2 |-> DrawLine(sc.l2, sc.w2, sc.l2_fits, off2, sc.margin, sc.left_align),
         t3 |-> DrawLine(sc.l3, sc.w3, sc.l3_fits, off3, sc.margin, sc.left_align)]

\* calls of the renderer that a run follows
MaxCalls == 2

\* the texts and durations (ms) the calls pass: an empty line, lines of
\* exactly the viewport's width and of 1 to 3 px more, and cycles cut short
\* before the first frame, during and right after the first scroll, and
\* after a whole cycle
Line1Texts == { "", "UAL123", "px61" }
Line2Texts == { "", "px60", "px61", "px63" }
Line3Texts == { "", "px60", "px62" }
Durations == { 0, 1700, 2000, 9000 }
RenderInputs ==
    { [l1 |-> a, l2 |-> b, l3 |-> c, secs |-> d, left_align |-> FALSE] :
        a \in Line1Texts, b \in Line2Texts, c \in Line3Texts, d \in Durations }
    \cup { [l1 |-> "UAL123", l2 |-> "px60", l3 |-> "px62", secs |-> 2000,
            left_align |-> TRUE] }

\* what the matrix showed when a call began: nothing
NothingShown == [off2 |-> 0, off3 |-> 0, l2 |-> "", l3 |-> ""]

\* Lines 440-459 and 498: the call's locals, at time 0 of the call; what the
\* matrix shows at that time is noted in `before`.
RenderCall ==
    /\ scroll.pc = "idle"
    /\ scroll.calls < MaxCalls
    /\ \E in \in RenderInputs :
         LET margin == SIDE_MARGIN_PX
             viewport_w == MATRIX_COLS - 2 * margin
             w2 == width(in.l2)
             w3 == width(in.l3)
             l2_fits == Fits(w2, viewport_w)
             l3_fits == Fits(w3, viewport_w)
         IN  scroll' =
               [pc |-> IF AllFit(l2_fits, l3_fits) THEN "static" ELSE "loop",
                calls |-> scroll.calls + 1,
                l1 |-> in.l1, l2 |-> in.l2, l3 |-> in.l3,
                left_align |-> in.left_align, margin |-> margin,
                now |-> 0, end_time |-> in.secs, viewport_w |-> viewport_w,
                w1 |-> width(in.l1), w2 |-> w2, w3 |-> w3,
                l2_fits |-> l2_fits, l3_fits |-> l3_fits,
                l2_span |-> Span(l2_fits, w2, viewport_w),
                l3_span |-> Span(l3_fits, w3, viewport_w),
                off2 |-> 0, off3 |-> 0,
                n |-> 0, far2 |-> 0, far3 |-> 0, cycles |-> 0,
                before |-> IF display = None THEN NothingShown
                           ELSE [off2 |-> display[1].off2, off3 |-> display[1].off3,
                                 l2 |-> display[1].t2.text, l3 |-> display[1].t3.text]]
    /\ UNCHANGED << geo, feedIn, slot, fcall, cacheVars, pc, ticks, ENRICH_CACHE,
                    items, best, payload, tickLog, display >>

\* the time (ms) that drawing and swapping a frame may take
SwapTimes == { 0, 20 }

\* The frame is swapped in, which takes some time, the call sleeps dt and
\* goes on at nxt with the offsets off2n and off3n, or returns when the time
\* is up and the code tests it there.
Frame(at, o2, o3, dt, nxt, breaks, off2n, off3n) ==
    \E took \in SwapTimes :
    LET now2 == scroll.now + took + dt
    IN  /\ display' = Some(draw(at, o2, o3))
        /\ scroll' = [scroll EXCEPT
                        !.now = now2,
                        !.n = @ + 1,
                        !.far2 = Max(@, o2),
                        !.far3 = Max(@, o3),
                        !.off2 = off2n,
                        !.off3 = off3n,
                        !.cycles = IF at = 535 THEN @ + 1 ELSE @,
                        !.pc = IF breaks /\ now2 >= scroll.end_time
                               THEN "returned" ELSE nxt]
        /\ UNCHANGED << geo, feedIn, slot, fcall, cacheVars, pc, ticks,
                        ENRICH_CACHE, items, best, payload, tickLog >>

\* min(hold_ms, max(0, end_time - now)) of lines 505, 515, 522, 532
HoldTime == Min(hold_ms, Max(0, scroll.end_time - scroll.now))

\* Lines 498-501: one frame, then sleep to the end of the cycle.
ScrollStatic ==
    /\ scroll.pc = "static"
    /\ Frame(499, 0, 0, Max(0, scroll.end_time - scroll.now), "returned", TRUE,
             scroll.off2, scroll.off3)

\* Lines 503-506 and 508.
ScrollHold2 ==
    /\ scroll.pc = "loop"
    /\ IF scroll.now < scroll.end_time
       THEN Frame(504, 0, 0, HoldTime, "scroll2", TRUE, 0, scroll.off3)
       ELSE /\ scroll' = [scroll EXCEPT !.pc = "returned"]
            /\ UNCHANGED << geo, feedIn, slot, fcall, cacheVars, loopVars >>

\* Lines 509-512.
ScrollStep2 ==
    /\ scroll.pc = "scroll2"
    /\ scroll.off2 < scroll.l2_span /\ scroll.now < scroll.end_time
    /\ Frame(510, scroll.off2, 0, step_ms, "scroll2", FALSE,
             scroll.off2 + step_px, scroll.off3)

\* Lines 509 (loop left) and 514-516.
ScrollEnd2 ==
    /\ scroll.pc = "scroll2"
    /\ ~(scroll.off2 < scroll.l2_span /\ scroll.now < scroll.end_time)
    /\ Frame(514, scroll.l2_span, 0, HoldTime, "pause2", TRUE, scroll.off2, scroll.off3)

\* Lines 518-519 going back to line 503 instead of on to line 3.
ScrollPause2Restarts ==
    /\ scroll.pc = "pause2"
    /\ Frame(518, 0, 0, PAUSE_MS, "loop", TRUE, scroll.off2, scroll.off3)

\* Lines 518-519.
ScrollPause2 ==
    /\ scroll.pc = "pause2"
    /\ Frame(518, 0, 0, PAUSE_MS, "hold3", TRUE, scroll.off2, scroll.off3)

\* Lines 521-523 and 525.
ScrollHold3 ==
    /\ scroll.pc = "hold3"
    /\ Frame(521, 0, 0, HoldTime, "scroll3", TRUE, scroll.off2, 0)

\* Lines 526-529.
ScrollStep3 ==
    /\ scroll.pc = "scroll3"
    /\ scroll.off3 < scroll.l3_span /\ scroll.now < scroll.end_time
    /\ Frame(527, 0, scroll.off3, step_ms, "scroll3", FALSE,
             scroll.off2, scroll.off3 + step_px)

\* Lines 526 (loop left) and 531-533.
ScrollEnd3 ==
    /\ scroll.pc = "scroll3"
    /\ ~(scroll.off3 < scroll.l3_span /\ scroll.now < scroll.end_time)
    /\ Frame(531, 0, scroll.l3_span, HoldTime, "pause3", TRUE, scroll.off2, scroll.off3)

\* Line 535 and back to line 503.
ScrollPause3 ==
    /\ scroll.pc = "pause3"
    /\ Frame(535, 0, 0, PAUSE_MS, "loop", FALSE, scroll.off2, scroll.off3)

\* Lines 501 and 503: the call returns and its locals are gone; the frame
\* stays on the matrix.
ScrollReturn ==
    /\ scroll.pc = "returned"
    /\ scroll' = [pc |-> "idle", calls |-> scroll.calls]
    /\ UNCHANGED << geo, feedIn, slot, fcall, cacheVars, loopVars >>

\* render_mlb_view, lines 578-598: until its time is up it draws the same
\* frame again and again, the two team names at the left margin, nothing
\* scrolled.
RenderMlb ==
    /\ scroll.pc = "idle"
    /\ scroll.calls < MaxCalls
    /\ scroll' = [scroll EXCEPT !.calls = @ + 1]
    /\ display' = Some([call |-> scroll.calls + 1, at |-> 597, off2 |-> 0, off3 |-> 0,
                        t1 |-> Drawn("SD", width("SD"), SIDE_MARGIN_PX, FALSE),
                        t2 |-> Drawn("LAD", width("LAD"), SIDE_MARGIN_PX, FALSE),
                        t3 |-> NotDrawn])
    /\ UNCHANGED << geo, feedIn, slot, fcall, cacheVars, pc, ticks, ENRICH_CACHE,
                    items, best, payload, tickLog >>

RenderInit ==
    /\ geo = NoGeo /\ feedIn = None /\ slot = "none" /\ CacheInit /\ LoopInit
    /\ NoDraw
RenderNext ==
    \/ RenderCall \/ ScrollStatic \/ ScrollHold2 \/ ScrollStep2 \/ ScrollEnd2
    \/ ScrollPause2 \/ ScrollHold3 \/ ScrollStep3 \/ ScrollEnd3 \/ ScrollPause3
    \/ ScrollReturn \/ RenderMlb
SpecRender == RenderInit /\ [][RenderNext]_vars

----------
(* Shutdown while a render cycle runs *)

\* A signal noticed only at the top of the cycle, line 503.
InterruptibleAtLoopTop(at) == at = "loop"

\* Lines 498-535: the renderer has no handler of its own and tests no flag;
\* Python raises KeyboardInterrupt in the main thread at whatever statement
\* or time.sleep of the call the signal arrives.
Interruptible(at) == at # "idle"

\* Lines 699-700 for a KeyboardInterrupt raised inside
\* render_cycle_with_margins: the call is unwound, nothing more is drawn,
\* the rest of the sleep is not slept, and main's handler leaves the loop.
ScrollInterrupt ==
    /\ pc = "render"
    /\ Interruptible(scroll.pc)
    /\ scroll' = [pc |-> "idle", calls |-> scroll.calls]
    /\ pc' = "done"
    /\ LogAll(<< "KeyboardInterrupt" >>)
    /\ UNCHANGED << geo, feedIn, slot, fcall, cacheVars, ticks, ENRICH_CACHE, items,
                    best, payload, display >>

\* main stands at a renderer call (lines 681, 688, 695) of its first
\* iteration; the lines it passes are those of RenderInputs
ShutdownInit ==
    /\ geo = NoGeo /\ feedIn = None /\ slot = "none" /\ CacheInit /\ NoDraw
    /\ pc = "render" /\ ticks = 1 /\ ENRICH_CACHE = << >> /\ items = << >>
    /\ best = None /\ payload = None /\ tickLog = << >> /\ display = None
ShutdownNext ==
    \/ pc = "render" /\ RenderNext
    \/ ScrollInterrupt
SpecShutdown == ShutdownInit /\ [][ShutdownNext]_vars

----------------------------------------------------------------------------
(* Properties of the geometry and of the selection *)

ProbeDone == geo.op = "within_corridor" /\ geo.done
ProbeRaw == RawT(geo.lat, geo.lon, P1_LAT, P1_LON, P2_LAT, P2_LON)
\* squared perpendicular distance to the P1->P2 line, times |P2 - P1|^2
ProbePerpNum ==
    LET a == to_local_xy(P1_LAT, P1_LON)
        b == to_local_xy(P2_LAT, P2_LON)
        p == to_local_xy(geo.lat, geo.lon)
        cross == (p.x - a.x) * (b.y - a.y) - (p.y - a.y) * (b.x - a.x)
    IN  cross * cross

\* C9: within_corridor is true for every point whose projection lies strictly
\* between P1 and P2 and whose distance to the segment is at most the half
\* width, and false for every point whose unclamped projection parameter is
\* below 0 or above 1.
C9_CorridorIsLaneSegment ==
    ProbeDone =>
        /\ (/\ 0 < ProbeRaw.num /\ ProbeRaw.num < ProbeRaw.den
            /\ ProbePerpNum <= CORRIDOR_HALF_SQ * ProbeRaw.den) => geo.ret
        /\ (ProbeRaw.num < 0 \/ ProbeRaw.num > ProbeRaw.den) => ~geo.ret

PickDone == geo.op = "pick_best" /\ geo.done
Passing(its) ==
    { i \in 1..Len(its) : /\ altitude_ok(its[i].alt_ft)
                          /\ within_corridor(its[i].lat, its[i].lon) }
DistNum(it) ==
    point_to_segment_dist_m(it.lat, it.lon, P1_LAT, P1_LON, P2_LAT, P2_LON).dnum

\* C10: pick_best returns nothing when no observation passes altitude_ok and
\* within_corridor (the empty list included); otherwise it returns a passing
\* observation at the minimal distance to the centerline, the first such in
\* input order.
C10_PickBestNearestFirst ==
    PickDone =>
        LET its == geo.items
            ok == Passing(its)
        IN  IF ok = {} THEN geo.ret = None
            ELSE \E k \in ok :
                    /\ geo.ret = Some(its[k])
                    /\ \A j \in ok : DistNum(its[k]) <= DistNum(its[j])
                    /\ \A j \in ok : j < k => DistNum(its[k]) < DistNum(its[j])

\* three observations pass, the first two tie at the minimal distance, and the
\* first is returned
C10_Witness ==
    /\ PickDone
    /\ Len(geo.items) = 3
    /\ Passing(geo.items) = {1, 2, 3}
    /\ DistNum(geo.items[1]) = DistNum(geo.items[2])
    /\ DistNum(geo.items[1]) < DistNum(geo.items[3])
    /\ geo.ret = Some(geo.items[1])

----------------------------------------------------------------------------
(* Properties of the arbitration in main's loop *)

Last(q) == q[Len(q)]
\* the iteration has ended: its render returned, or its failure was raised
TickOver == ticks > 0 /\ pc \in {"poll", "backoff"}
\* the iteration ran to its end and nothing was raised in it
TickCompleted == ticks > 0 /\ pc = "poll" /\ ~Logged("raise")
ShowsPayloadOfThisTick ==
    payload # None /\ display = Some([tick |-> ticks, shown |-> payload[1]])
Before(ev1, ev2) ==
    \E i, j \in 1..Len(tickLog) : i < j /\ tickLog[i] = ev1 /\ tickLog[j] = ev2

\* C1: in a tick in which pick_best returns an aircraft, the only payload
\* handed to a renderer is the Flight payload of that aircraft, a tick that
\* runs to its end has drawn it, and neither the sports nor the weather source
\* is queried in that tick.
C1_FlightShortCircuits ==
    (ticks > 0 /\ best # None) =>
        /\ ~Logged("sports") /\ ~Logged("weather")
        /\ sportsCall = None /\ weatherCall = None
        /\ payload # None =>
              payload[1].kind = "Flight" /\ payload[1].fid = best[1].fid
        /\ Logged("frame") => ShowsPayloadOfThisTick
        /\ TickCompleted => Logged("frame")

C1_Witness ==
    /\ TickCompleted /\ best # None
    /\ Logged("frame")
    /\ display[1].shown.kind = "Flight"
    /\ display[1].tick = ticks

\* C2: in a tick in which pick_best returns nothing, the sports slot is read
\* first; with a game the Sport payload is rendered and the weather source is
\* not queried; only without a game is the weather source queried, after the
\* sports read, and the Weather payload rendered.
C2_SportsThenWeather ==
    (ticks > 0 /\ best = None) =>
        /\ pc \in {"weather", "render", "backoff"} \/ TickOver => Logged("sports")
        /\ Logged("sports") => sportsCall # None
        /\ Logged("weather") =>
              /\ Before("sports", "weather")
              /\ ~sportsCall[1].ret.have
              /\ payload # None /\ payload[1].kind = "Weather"
        /\ (sportsCall # None /\ sportsCall[1].ret.have) =>
              /\ ~Logged("weather") /\ weatherCall = None
              /\ payload # None /\ payload[1].kind = "Sport"
        /\ (sportsCall # None /\ ~sportsCall[1].ret.have /\ TickOver) =>
              Logged("weather")
        /\ Logged("frame") => ShowsPayloadOfThisTick
        /\ TickCompleted => Logged("frame")

\* the Sport payload of the tick before is on the display and this tick, with
\* no game, has read the weather and holds the Weather payload
C2_Witness ==
    /\ ticks = 2 /\ best = None /\ pc = "render"
    /\ display # None /\ display[1].tick = 1 /\ display[1].shown.kind = "Sport"
    /\ Before("sports", "weather")
    /\ payload[1].kind = "Weather"

FlightUnavailable == best = None
SportsUnavailable == sportsCall # None /\ ~sportsCall[1].ret.have
WeatherFailed == weatherCall # None /\ weatherCall[1].outcome = "error"
AllUnavailable ==
    ticks > 0 /\ FlightUnavailable /\ SportsUnavailable /\ WeatherFailed

\* C6 as claimed: in a tick where all three sources are unavailable the Idle
\* payload is emitted and drawn as a new frame of that tick, so that the
\* previous tick's frame never stays on the display.
C6_IdleOnTotalFailure ==
    AllUnavailable =>
        /\ payload # None /\ payload[1].kind = "Idle"
        /\ TickOver => ShowsPayloadOfThisTick

PlaceholderPayload ==
    [kind |-> "Weather", l1 |-> "NO TRAFFIC", l2 |-> DASH, l3 |-> "", dot |-> WHITE]

\* C6 amended: in a tick where all three sources are unavailable the payload
\* handed to the renderer is the Weather placeholder (NO TRAFFIC, dash, no
\* wind line), there being no Idle payload; every frame the tick draws shows
\* it, and a tick in which no drawing call raises has drawn it as a new frame.
C6_PlaceholderOnTotalFailure ==
    AllUnavailable =>
        /\ payload = Some(PlaceholderPayload)
        /\ Logged("frame") => ShowsPayloadOfThisTick
        /\ TickCompleted => Logged("frame")

\* the second tick fails on all three sources and replaces the first
\* tick's frame by the placeholder
C6_Witness ==
    /\ AllUnavailable /\ TickCompleted /\ ticks = 2
    /\ Logged("feed_error") /\ sportsCall[1].outcome = "error"
    /\ display = Some([tick |-> 2, shown |-> PlaceholderPayload])

FlightRenderRaised ==
    Logged("raise") /\ payload # None /\ payload[1].kind = "Flight"

\* C7 as claimed: within a tick a failure in the flight step (feed,
\* enrichment, delay lookup or flight rendering) still lets the sports source
\* be queried, and a failure of the sports source still lets the weather
\* source be queried.
C7_FailureNeverBlocksLower ==
    TickOver =>
        /\ ( \/ Logged("feed_error") \/ Logged("details_error")
             \/ Logged("delay_error") \/ FlightRenderRaised ) => Logged("sports")
        /\ (sportsCall # None /\ sportsCall[1].outcome = "error") => Logged("weather")

\* C7 amended: within a tick a failure of the flight feed (no host answers)
\* still lets the sports source be queried and a failed sports fetch still
\* lets the weather source be queried; a failed enrichment or delay lookup
\* leaves the Flight payload to be rendered, which ends the tick without a
\* sports or weather query, and so does anything raised in the flight step or
\* by a renderer.
C7_SourceFailureFallsThrough ==
    TickOver =>
        /\ Logged("feed_error") => Logged("sports")
        /\ (sportsCall # None /\ sportsCall[1].outcome = "error") => Logged("weather")
        /\ (Logged("details_error") \/ Logged("delay_error")) =>
              /\ ~Logged("sports") /\ ~Logged("weather")
              /\ ~Logged("raise") => Logged("frame") /\ display[1].shown.kind = "Flight"
        /\ Logged("raise") =>
              /\ pc = "backoff" \/ Last(tickLog) = "warning"
              /\ payload # None /\ payload[1].kind = "Flight" => ~Logged("sports")
              /\ payload # None /\ payload[1].kind = "Sport" => ~Logged("weather")

\* no feed host answered, the sports fetch failed, and the weather was read
C7_Witness ==
    /\ TickOver
    /\ Logged("feed_error")
    /\ sportsCall # None /\ sportsCall[1].outcome = "error"
    /\ Before("sports_fetch", "weather")

\* C8: the loop ends only on KeyboardInterrupt; whatever is raised in an
\* iteration leads to the handler, which logs the warning, sleeps 2 s and
\* goes on to the next iteration, which starts with a new flight poll.
C8_LoopSurvivesFailures ==
    [][ /\ (pc # "done" /\ pc' = "done") => Last(tickLog') = "KeyboardInterrupt"
        /\ (tickLog' # tickLog /\ Last(tickLog') = "raise") => pc' = "backoff"
        /\ (pc = "backoff" /\ pc' # "done") =>
              /\ pc' = "poll"
              /\ tickLog' = Append(tickLog, "warning")
              /\ padres_cache'.age =
                    Older(padres_cache.age, BACKOFF_SEC, PADRES_CACHE_TTL)
              /\ weather_simple_cache'.age =
                    Older(weather_simple_cache.age, BACKOFF_SEC, WEATHER_CACHE_TTL)
        /\ (pc = "poll" /\ pc' # "done") =>
              /\ ticks' = ticks + 1
              /\ tickLog'[1] = "feed"
              /\ pc' \in {"flight", "sports"}
      ]_vars

\* the first iteration fetched the sports slot and then raised; 2 s later the
\* second iteration has polled the feed
C8_Witness ==
    /\ ticks = 2 /\ pc \in {"flight", "sports"}
    /\ tickLog[1] = "feed"
    /\ padres_cache.age = BACKOFF_SEC

----------------------------------------------------------------------------
(* Properties of the sports eligibility rule and of the cache slots *)

StateIsLive(st) ==
    st # None /\ st[1] \in {"in", "IN", "inprogress", "InProgress", "live", "LIVE"}
TrackedScore(e) == IF e.padres = "A" THEN e.sA ELSE e.sB
OpponentScore(e) == IF e.padres = "A" THEN e.sB ELSE e.sA
\* a two-team game of the tracked team that is live and not being lost
Eligible(e) ==
    /\ e.n = 2 /\ e.padres # "none"
    /\ StateIsLive(e.ev) \/ StateIsLive(e.comp)
    /\ TrackedScore(e) >= OpponentScore(e)
\* the events of the responses that the fetch received
Received(resps, asked) ==
    UNION { { resps[k].events[i] : i \in 1..Len(resps[k].events) }
            : k \in { d \in 1..asked : resps[d].ok } }

\* C3: a fetch yields have_game = true if and only if it received a game of
\* the tracked team whose status state is in, inprogress or live and in which
\* the tracked team's score is at least the opponent's; a live game in which
\* it trails counts as absent.
C3_LiveAndNotLosing ==
    sportsCall # None =>
        LET call == sportsCall[1]
            got == Received(feedIn[1], call.asked)
        IN  /\ call.ret.have <=> \E e \in got : Eligible(e)
            /\ call.ret.have =>
                  \E e \in got : /\ Eligible(e)
                                  /\ call.ret.top = Some(<<"SD", TrackedScore(e)>>)
                                  /\ call.ret.bottom = Some(<<"OPP", OpponentScore(e)>>)

\* a live game that is being lost is passed over and the tie after it is taken
C3_Witness ==
    /\ sportsCall # None /\ sportsCall[1].ret.have
    /\ Len(feedIn[1][1].events) = 2
    /\ LET e1 == feedIn[1][1].events[1]
       IN  /\ e1.n = 2 /\ e1.padres # "none" /\ StateIsLive(e1.ev)
           /\ TrackedScore(e1) < OpponentScore(e1)
    /\ sportsCall[1].ret.top = Some(<<"SD", 3>>)
    /\ sportsCall[1].ret.bottom = Some(<<"OPP", 3>>)

\* C4: a read of the sports slot (TTL 30 s) or of the weather slot (TTL 900 s)
\* made less than the TTL after the slot's last capture returns the stored
\* value, leaves the slot as it is and makes no fetch; a read made more than
\* the TTL after the capture makes a fetch.
C4_TtlServesThenRefetches ==
    /\ sportsCall # None =>
          LET call == sportsCall[1]
          IN  /\ call.before.age < PADRES_CACHE_TTL =>
                    /\ ~call.fetched
                    /\ call.ret = call.before.stored
                    /\ PadresStored(padres_cache) = call.before.stored
                    /\ padres_cache.age = call.before.age
              /\ call.before.age > PADRES_CACHE_TTL => call.fetched
    /\ weatherCall # None =>
          LET call == weatherCall[1]
          IN  /\ call.before.age < WEATHER_CACHE_TTL =>
                    /\ ~call.fetched
                    /\ call.ret = call.before.stored
                    /\ WeatherStored(weather_simple_cache) = call.before.stored
                    /\ weather_simple_cache.age = call.before.age
              /\ call.before.age > WEATHER_CACHE_TTL => call.fetched

\* the weather captured 899 s ago is served from the slot
C4_Witness ==
    /\ weatherCall # None
    /\ weatherCall[1].before.age = WEATHER_CACHE_TTL - 1
    /\ ~weatherCall[1].fetched
    /\ weatherCall[1].ret.temp_text = "72F"

\* C5: when a read after the TTL makes a fetch and the fetch fails, the read
\* returns the value of the last successful fetch and the slot keeps that
\* value and its capture time.
C5_StaleOnFailedFetch ==
    /\ ( /\ weatherCall # None /\ weatherCall[1].outcome = "error"
         /\ weatherCall[1].before.stored.temp_text # "" ) =>
          /\ weatherCall[1].ret = weatherCall[1].before.stored
          /\ WeatherStored(weather_simple_cache) = weatherCall[1].before.stored
          /\ weather_simple_cache.age = weatherCall[1].before.age
    /\ ( /\ sportsCall # None /\ sportsCall[1].outcome = "error"
         /\ sportsCall[1].before.stored.have ) =>
          /\ sportsCall[1].ret = sportsCall[1].before.stored
          /\ PadresStored(padres_cache) = sportsCall[1].before.stored
          /\ padres_cache.age = sportsCall[1].before.age

----------------------------------------------------------------------------
(* Properties of the feed fetch *)

FeedDone == fcall.op = "fetch_live_scrape" /\ fcall.done
Answering == { h \in 1..Len(FEED_HOSTS) : fcall.resps[h].status = "ok" }
FirstAnswering == CHOOSE h \in Answering : \A g \in Answering : h <= g

\* C19: fetch_live_scrape contacts the hosts in list order, returns the
\* observations of the first host that answers successfully and contacts no
\* host after it, and returns the empty list when every host fails.
C19_FirstHostWins ==
    FeedDone =>
        IF Answering # {}
        THEN /\ fcall.ret.out = fcall.resps[FirstAnswering].out
             /\ fcall.ret.contacted = SubSeq(FEED_HOSTS, 1, FirstAnswering)
        ELSE /\ fcall.ret.out = << >>
             /\ fcall.ret.contacted = FEED_HOSTS

\* the first host fails to parse, the second one answers with an aircraft
C19_Witness ==
    /\ FeedDone
    /\ fcall.resps[1].status = "parse"
    /\ fcall.resps[2].status = "ok"
    /\ fcall.ret.out = << InCorridor >>
    /\ fcall.ret.contacted = FEED_HOSTS

----------------------------------------------------------------------------
(* Properties of the weather fallback *)

\* C20: a failed weather fetch is not fatal: fetch_weather_simple returns the
\* placeholder and raises nothing, the loop goes on to the renderer with the
\* Weather payload made from the placeholder, and a tick in which no drawing
\* call raises has drawn that payload.
C20_WeatherFailureNotFatal ==
    (weatherCall # None /\ weatherCall[1].outcome = "error") =>
        /\ weatherCall[1].ret = [temp_text |-> DASH, temp_color |-> WHITE, wind_text |-> ""]
        /\ payload # None /\ payload[1].kind = "Weather"
        /\ payload[1].l1 = "NO TRAFFIC" /\ payload[1].l2 = DASH /\ payload[1].l3 = ""
        /\ pc \in {"render", "poll", "backoff", "done"}
        /\ (pc = "backoff" \/ Logged("warning")) => Logged("raise")
        /\ (pc = "poll" /\ ~Logged("raise")) =>
              /\ Logged("frame")
              /\ display[1].tick = ticks /\ display[1].shown.kind = "Weather"
              /\ display[1].shown.l2 = DASH

\* the first tick's weather fetch fails and the placeholder is on the display
C20_Witness ==
    /\ ticks = 1 /\ pc = "poll"
    /\ weatherCall # None /\ weatherCall[1].outcome = "error"
    /\ Logged("frame")
    /\ display # None /\ display[1].shown.l2 = DASH

----------------------------------------------------------------------------
(* Properties of the enrichment cache *)

\* a non-empty enrichment result is stored for the aircraft picked
StoredForBest ==
    /\ best # None
    /\ best[1].fid \in DOMAIN ENRICH_CACHE
    /\ ENRICH_CACHE[best[1].fid].full
DetailsCalledNext == \E i \in 1..Len(tickLog') : tickLog'[i] = "details"

\* C18 as claimed: once a non-empty enrichment result is stored for an
\* aircraft identifier, a tick that selects that identifier keeps the stored
\* result and does not call fetch_details_scrape, whatever callsign the feed
\* reports.
C18_EnrichedOncePerId ==
    [][ (pc = "flight" /\ pc' # "done" /\ StoredForBest) =>
            /\ ~DetailsCalledNext
            /\ ENRICH_CACHE' = ENRICH_CACHE
      ]_vars

\* C18 amended: with a non-empty result stored for the identifier picked, a
\* tick whose feed reports a non-blank callsign keeps the stored result and
\* does not call fetch_details_scrape; a tick whose feed reports a blank
\* callsign calls it again and stores what it returns in place of the stored
\* result.
C18_EnrichedUnlessBlankCallsign ==
    [][ (pc = "flight" /\ pc' # "done" /\ StoredForBest) =>
            IF best[1].fn # ""
            THEN /\ ~DetailsCalledNext
                 /\ ENRICH_CACHE' = ENRICH_CACHE
            ELSE /\ DetailsCalledNext
                 /\ \E det \in DetailResponses :
                       ENRICH_CACHE' = (best[1].fid :> det) @@ ENRICH_CACHE
      ]_vars

\* the second tick picks the aircraft enriched in the first one, with its
\* callsign, and makes the payload from the stored details without a fetch
C18_Witness ==
    /\ ticks = 2 /\ pc = "render"
    /\ StoredForBest /\ best[1].fn = "UAL123"
    /\ Logged("delay") /\ ~Logged("details")
    /\ payload # None /\ payload[1].l2 = "Boeing 737-8"

----------------------------------------------------------------------------
(* Properties of the order of arbitration and rendering *)

SourceQueries ==
    { "feed", "feed_error", "pick", "details", "details_error", "delay",
      "delay_error", "sports", "sports_fetch", "weather", "weather_fetch" }
FirstFrame == CHOOSE i \in 1..Len(tickLog) :
                 tickLog[i] = "frame" /\ \A j \in 1..(i - 1) : tickLog[j] # "frame"

\* C17: within a tick no frame is drawn before every source query of the tick
\* has returned and no query follows a frame, and the frame on the display is
\* either the whole payload of this tick or, until this tick draws, the whole
\* frame left by an earlier tick.
C17_ArbitrationBeforeFrames ==
    /\ pc \in {"flight", "sports", "weather", "render"} =>
          /\ ~Logged("frame")
          /\ display # None => display[1].tick < ticks
    /\ Logged("frame") =>
          /\ \A j \in FirstFrame..Len(tickLog) : tickLog[j] \notin SourceQueries
          /\ ShowsPayloadOfThisTick
    /\ (display # None /\ payload # None /\ display[1].tick = ticks) =>
          display[1].shown = payload[1]
    /\ (display # None /\ display[1].shown.kind = "Weather") =>
          display[1].shown.l1 = "NO TRAFFIC"
    /\ (display # None /\ display[1].shown.kind = "Sport") =>
          display[1].shown.l3 = "" /\ display[1].shown.l1[1] = "SD"

\* the second tick has made its enrichment and delay lookups and then drawn
\* its Flight payload over the Weather frame of the first tick
C17_Witness ==
    /\ ticks = 2 /\ pc = "poll"
    /\ Before("details", "frame") /\ Before("delay", "frame")
    /\ payload # None /\ payload[1].kind = "Flight"
    /\ display = Some([tick |-> 2, shown |-> payload[1]])
    /\ weather_simple_cache.age = POLL_INTERVAL_SEC * 2

----------------------------------------------------------------------------
(* Properties of the scrolling renderer *)

\* a call of render_cycle_with_margins is under way
Rendering == scroll.pc \notin {"idle"}
\* ... and the frame on the matrix is one of its frames
OwnFrame == Rendering /\ scroll.n >= 1
\* the width between the margins
TextArea == MATRIX_COLS - 2 * SIDE_MARGIN_PX
SpanOf(w) == IF w > TextArea THEN w - TextArea ELSE 0
CenterOf(w) == (MATRIX_COLS - w) \div 2
\* the line is on the canvas at its static, centered place
Static(t) == t.drawn => t.centered /\ t.x = CenterOf(t.w) /\ t.x >= SIDE_MARGIN_PX
\* the line is on the canvas at offset off of its scroll
Scrolled(t, off) == t.drawn => ~t.centered /\ t.x = SIDE_MARGIN_PX - off

\* C11 as claimed: with W the width that the centering formula uses, a line
\* is classified as fitting if and only if its measured width is at most W.
C11_FitsWithinCenteringWidth ==
    Rendering =>
        /\ scroll.l2_fits <=> scroll.w2 <= MATRIX_COLS
        /\ scroll.l3_fits <=> scroll.w3 <= MATRIX_COLS

\* C11 amended: with W the matrix width less the two margins (60 px), line 2
\* and line 3 are each classified as fitting if and only if their measured
\* width is at most W; in a centered call a line that fits is drawn at its
\* static place in every frame, and a call with a line that does not fit
\* takes the scroll cycle, where that line is drawn at its scroll offset.
C11_FitsWithinTextArea ==
    Rendering =>
        /\ scroll.viewport_w = TextArea
        /\ scroll.l2_fits <=> scroll.w2 <= TextArea
        /\ scroll.l3_fits <=> scroll.w3 <= TextArea
        /\ (~scroll.l2_fits \/ ~scroll.l3_fits) => scroll.pc # "static"
        /\ (OwnFrame /\ ~scroll.left_align) =>
              /\ IF scroll.w2 <= TextArea THEN Static(display[1].t2)
                 ELSE display[1].at # 499 /\ Scrolled(display[1].t2, display[1].off2)
              /\ IF scroll.w3 <= TextArea THEN Static(display[1].t3)
                 ELSE display[1].at # 499 /\ Scrolled(display[1].t3, display[1].off3)

\* line 2 is 61 px wide and at the end of its scroll, line 3 is 60 px wide
\* and at its centered place
C11_Witness ==
    /\ OwnFrame
    /\ scroll.w2 = TextArea + 1 /\ scroll.w3 = TextArea
    /\ display[1].at = 514 /\ display[1].off2 = 1
    /\ display[1].t2.x = 1
    /\ display[1].t3.x = 2 /\ display[1].t3.centered

\* C12: every frame of a call draws a scrolling line at an offset between 0
\* and its span, text width less the width between the margins, and the
\* frame that ends the line's scroll is drawn at exactly the span.
C12_OffsetWithinSpan ==
    OwnFrame =>
        /\ 0 <= display[1].off2 /\ display[1].off2 <= SpanOf(scroll.w2)
        /\ 0 <= display[1].off3 /\ display[1].off3 <= SpanOf(scroll.w3)
        /\ scroll.far2 <= SpanOf(scroll.w2) /\ scroll.far3 <= SpanOf(scroll.w3)
        /\ display[1].at = 514 =>
              display[1].off2 = SpanOf(scroll.w2) /\ scroll.far2 = SpanOf(scroll.w2)
        /\ display[1].at = 531 =>
              display[1].off3 = SpanOf(scroll.w3) /\ scroll.far3 = SpanOf(scroll.w3)
        /\ display[1].at = 510 => display[1].off2 < SpanOf(scroll.w2)
        /\ display[1].at = 527 => display[1].off3 < SpanOf(scroll.w3)

\* a line of 63 px has gone through the offsets 0, 1, 2 and stands at 3
C12_Witness ==
    /\ OwnFrame
    /\ scroll.w2 = TextArea + 3
    /\ display[1].at = 514 /\ display[1].off2 = 3
    /\ scroll.n >= 5
    /\ scroll.now < scroll.end_time

\* the offset at which line 1 stands in the frame on the matrix
LineOneOffset == SIDE_MARGIN_PX - display[1].t1.x
\* the call has gone through a whole cycle, or has returned after its 9 s
CycleDone ==
    OwnFrame /\ (scroll.cycles >= 1 \/ (scroll.pc = "returned" /\ scroll.end_time = 9000))

\* C13: each of the three lines, line 1 included, decides on its own: after
\* a whole cycle a line that does not fit has been scrolled through its full
\* span, and a line that fits stands at offset 0 in every frame.
C13_EveryLineDecidesAlone ==
    /\ (OwnFrame /\ scroll.w2 <= TextArea) => scroll.far2 = 0
    /\ (OwnFrame /\ scroll.w3 <= TextArea) => scroll.far3 = 0
    /\ (OwnFrame /\ display[1].t1.w <= TextArea) => LineOneOffset <= 0
    /\ (OwnFrame /\ scroll.cycles >= 1) =>
          /\ scroll.far2 = SpanOf(scroll.w2)
          /\ scroll.far3 = SpanOf(scroll.w3)
    /\ (CycleDone /\ display[1].t1.w > TextArea) =>
          display[1].at # 499 /\ ~display[1].t1.centered

\* C14: every centered text on a frame lies between the margins, and it
\* stands at the plain center whenever the plain center lies between them.
C14_CenteredWithinMargins ==
    OwnFrame =>
        \A t \in { display[1].t1, display[1].t2, display[1].t3 } :
            (t.drawn /\ t.centered) =>
                /\ SIDE_MARGIN_PX <= t.x
                /\ t.x + t.w <= MATRIX_COLS - SIDE_MARGIN_PX
                /\ ( /\ SIDE_MARGIN_PX <= CenterOf(t.w)
                     /\ CenterOf(t.w) + t.w <= MATRIX_COLS - SIDE_MARGIN_PX )
                   => t.x = CenterOf(t.w)

\* C15: a call whose lines all fit draws exactly one frame, at line 499, and
\* then only sleeps until its time is up.
C15_OneStaticFrame ==
    ( /\ Rendering
      /\ width(IF scroll.l1 # "" THEN scroll.l1 ELSE "NO TRAFFIC") <= TextArea
      /\ scroll.w2 <= TextArea /\ scroll.w3 <= TextArea ) =>
        /\ scroll.pc \in {"static", "returned"}
        /\ scroll.pc = "static" => scroll.n = 0
        /\ scroll.pc = "returned" =>
              /\ scroll.n = 1
              /\ display[1].call = scroll.calls /\ display[1].at = 499
              /\ scroll.now >= scroll.end_time

\* two lines of exactly 60 px: one frame, and the 9 s of the call are over
C15_Witness ==
    /\ scroll.pc = "returned"
    /\ scroll.l2 = "px60" /\ scroll.l3 = "px60" /\ scroll.l1 = "UAL123"
    /\ scroll.n = 1 /\ scroll.end_time = 9000 /\ scroll.now >= 9000

\* C16: the first frame drawn after the frame of another call, so whenever
\* the text changes, has offset 0 for both scrolling lines, which stand at
\* the left margin; no frame combines the new text with an earlier offset.
C16_NewTextStartsAtZero ==
    [][ (display' # display /\ display # None
         /\ display'[1].call # display[1].call) =>
            /\ display'[1].off2 = 0 /\ display'[1].off3 = 0
            /\ \A t \in { display'[1].t2, display'[1].t3 } :
                  (t.drawn /\ ~t.centered) => t.x = SIDE_MARGIN_PX
            /\ scroll'.pc # "idle" =>
                  /\ display'[1].t2.text = scroll'.l2
                  /\ display'[1].t3.text = scroll'.l3
      ]_vars

\* the call before ended with line 2 at offset 3; the first frame of this
\* call shows another text for line 2, at offset 0
C16_Witness ==
    /\ OwnFrame /\ scroll.calls = 2 /\ scroll.n = 1
    /\ scroll.before.off2 = 3 /\ scroll.before.l2 = "px63"
    /\ scroll.l2 = "px61"
    /\ display[1].t2.text = "px61" /\ display[1].off2 = 0 /\ display[1].t2.x = 2



\* a step of the call that swaps in a frame after another frame of the call
NextFrame ==
    /\ scroll.pc # "idle" /\ scroll'.pc # "idle"
    /\ scroll.n >= 1 /\ scroll'.n = scroll.n + 1

\* C22: while a line is scrolled the drawn offset starts at 0 and each
\* frame advances it by exactly 1 px until it equals the span; no frame of
\* the scroll, the frame held at its end included, shows an offset more than
\* 1 px larger than the frame before it, also when the call's time runs out
\* during the scroll.
C22_ScrollAdvancesOnePixel ==
    [][ NextFrame =>
          LET f == display[1]
              g == display'[1]
          IN  /\ g.at = 510 => g.off2 = (IF f.at = 510 THEN f.off2 + 1 ELSE 0)
              /\ g.at = 514 => /\ g.off2 = SpanOf(scroll.w2)
                               /\ g.off2 <= f.off2 + 1
              /\ g.at = 527 => g.off3 = (IF f.at = 527 THEN f.off3 + 1 ELSE 0)
              /\ g.at = 531 => /\ g.off3 = SpanOf(scroll.w3)
                               /\ g.off3 <= f.off3 + 1
      ]_vars


\* the lines of the code that may draw the frame after the frame of line at:
\* hold, scroll, end of scroll and pause of line 2, then those of line 3
Follows(at) ==
    CASE at = 504 -> {510, 514}
      [] at = 510 -> {510, 514}
      [] at = 514 -> {518}
      [] at = 518 -> {521}
      [] at = 521 -> {527, 531}
      [] at = 527 -> {527, 531}
      [] at = 531 -> {535}
      [] at = 535 -> {504}
      [] OTHER -> {}

\* C23: the frames of a call come in the fixed cyclic order Held(0),
\* Scrolling, HeldEnd, Pause of line 2, then the same of line 3, then line 2
\* again; in every frame at most one of the two offsets is not 0; and a line
\* that fits is drawn at the same x in every frame of the call.
C23_PhasesInFixedOrder ==
    [][ (scroll.pc # "idle" /\ scroll'.pc # "idle" /\ scroll'.n = scroll.n + 1) =>
          LET g == display'[1]
          IN  /\ g.off2 = 0 \/ g.off3 = 0
              /\ scroll.n = 0 => g.at \in {499, 504}
              /\ scroll.n >= 1 =>
                    LET f == display[1]
                    IN  /\ g.at \in Follows(f.at)
                        /\ g.t1.x = f.t1.x
                        /\ scroll.w2 <= TextArea => g.t2 = f.t2
                        /\ scroll.w3 <= TextArea => g.t3 = f.t3
      ]_vars

\* after a whole cycle in which lines 2 and 3 were both scrolled to their
\* ends, line 2 is being scrolled again
C23_Witness ==
    /\ OwnFrame
    /\ scroll.cycles >= 1
    /\ scroll.w2 > TextArea /\ scroll.w3 > TextArea
    /\ scroll.far2 = SpanOf(scroll.w2) /\ scroll.far3 = SpanOf(scroll.w3)
    /\ display[1].at = 510 /\ display[1].off3 = 0
    /\ display[1].t1.drawn /\ display[1].t1.centered

----------------------------------------------------------------------------
(* Properties of the shutdown *)

InCycle == pc = "render" /\ scroll.pc # "idle"
Interrupted == tickLog' = tickLog \o << "KeyboardInterrupt" >>

\* C21: a shutdown signal that arrives while a scroll cycle is in progress
\* is acted on at the step the cycle stands at, whichever it is: the
\* interrupt draws no further frame, leaves the rest of the cycle undone and
\* takes main out of its loop at once, after which nothing is drawn.
C21_ShutdownBetweenSteps ==
    /\ [](InCycle => ENABLED ScrollInterrupt)
    /\ [][ /\ Interrupted => /\ pc' = "done"
                             /\ display' = display
                             /\ scroll'.pc = "idle"
           /\ pc = "done" => pc' = "done" /\ display' = display ]_vars

\* the loop was left while line 2 was being scrolled, short of its span
C21_Witness ==
    /\ pc = "done"
    /\ Logged("KeyboardInterrupt")
    /\ display # None
    /\ display[1].at = 510
    /\ display[1].off2 + 1 < display[1].t2.w - (MATRIX_COLS - 2 * SIDE_MARGIN_PX)


----------------------------------------------------------------------------
(* Properties of failed fetches and the two slots *)

\* C24: a sports fetch that fails or finds no eligible game stores "no game"
\* with the current time in the sports slot, whatever game the slot held;
\* a read made less than 30 s after that returns "no game" and makes no
\* fetch.  A failed weather fetch leaves the weather slot as it was, so that
\* the next read of it makes a fetch again.
C24_SportsFailureCachedWeatherNot ==
    /\ sportsCall # None =>
          LET call == sportsCall[1]
          IN  /\ (call.fetched /\ call.outcome \in {"error", "nogame"}) =>
                    /\ call.ret = NoGame
                    /\ padres_cache = [age |-> 0] @@ NoGame
              /\ (call.before.age < PADRES_CACHE_TTL /\ ~call.before.stored.have) =>
                    /\ ~call.fetched
                    /\ call.ret = NoGame
                    /\ padres_cache.age = call.before.age
    /\ weatherCall # None =>
          LET call == weatherCall[1]
          IN  call.outcome = "error" =>
                /\ call.fetched
                /\ WeatherStored(weather_simple_cache) = call.before.stored
                /\ weather_simple_cache.age = call.before.age
                /\ ~WeatherFresh(weather_simple_cache)

\* 29 s after a fetch that stored "no game", the read is served from the slot
C24_Witness ==
    /\ sportsCall # None
    /\ sportsCall[1].outcome = "hit"
    /\ ~sportsCall[1].ret.have
    /\ sportsCall[1].before.age = PADRES_CACHE_TTL - 1


\* the tick's read of the sports slot was served from the slot
SportsHit == sportsCall # None /\ ~sportsCall[1].fetched

\* C25: a completed render call lasts the poll interval, 30 s, and the sports
\* slot is served only while its age is under 30 s, so in a run in which no
\* iteration raises an exception every tick that reaches the sports step
\* finds the slot expired and makes a fetch; the slot is served only after
\* an iteration has failed and the loop has gone on after its 2 s backoff.
C25_SportsRefetchedEveryTick ==
    [](pc # "backoff") =>
        [](sportsCall # None =>
              /\ sportsCall[1].fetched
              /\ sportsCall[1].before.age >= PADRES_CACHE_TTL)

\* the render of the tick before raised; 2 s later the sports slot, filled in
\* that tick, is served without a fetch
C25_Witness ==
    /\ SportsHit
    /\ ticks >= 2
    /\ sportsCall[1].before.age = BACKOFF_SEC
    /\ Logged("sports") /\ ~Logged("sports_fetch")

====
